---- MODULE Spec2Model ----
(***************************************************************************)
(* Model of jinja2/sandbox.py: the attribute classifiers, the two          *)
(* attribute policies, SandboxedEnvironment.subscribe and .call, the       *)
(* unsafe decorator and safe_range.                                        *)
(*                                                                         *)
(* Attribute names and text keys are sequences of one-character strings,   *)
(* so that startswith is computed on the characters.                       *)
(***************************************************************************)
EXTENDS Integers, Sequences, FiniteSets, TLC

VARIABLES
    qobj, qattr, qval, qres,        \* classifier / policy call: inputs and last result
    policy, sub,                    \* environment variant; last subscribe call
    marks, calls, lastcall,         \* per-object flags; context.call log; last unsafe/call
    rargs, rng, itpos, yielded, passes   \* safe_range arguments, result, iterator state

vars == <<qobj, qattr, qval, qres, policy, sub, marks, calls, lastcall,
          rargs, rng, itpos, yielded, passes>>

None == [kind |-> "none"]

(***************************************************************************)
(* Text helpers                                                            *)
(***************************************************************************)
\* str.startswith(prefix)
startswith(s, prefix) ==
    /\ Len(s) >= Len(prefix)
    /\ SubSeq(s, 1, Len(prefix)) = prefix

(***************************************************************************)
(* Module-level name sets                                                  *)
(***************************************************************************)
UNSAFE_FUNCTION_ATTRIBUTES ==
    { <<"f","u","n","c","_","c","l","o","s","u","r","e">>,
      <<"f","u","n","c","_","c","o","d","e">>,
      <<"f","u","n","c","_","d","i","c","t">>,
      <<"f","u","n","c","_","d","e","f","a","u","l","t","s">>,
      <<"f","u","n","c","_","g","l","o","b","a","l","s">> }

UNSAFE_METHOD_ATTRIBUTES ==
    { <<"i","m","_","c","l","a","s","s">>,
      <<"i","m","_","f","u","n","c">>,
      <<"i","m","_","s","e","l","f">> }

MODIFYING_SET_ATTRIBUTES ==
    { <<"a","d","d">>,
      <<"c","l","e","a","r">>,
      <<"d","i","f","f","e","r","e","n","c","e","_","u","p","d","a","t","e">>,
      <<"d","i","s","c","a","r","d">>,
      <<"p","o","p">>,
      <<"r","e","m","o","v","e">>,
      <<"s","y","m","m","e","t","r","i","c","_","d","i","f","f","e","r","e","n","c","e","_","u","p","d","a","t","e">>,
      <<"u","p","d","a","t","e">> }

MODIFYING_DICT_ATTRIBUTES ==
    { <<"c","l","e","a","r">>,
      <<"p","o","p">>,
      <<"p","o","p","i","t","e","m">>,
      <<"s","e","t","d","e","f","a","u","l","t">>,
      <<"u","p","d","a","t","e">> }

MODIFYING_LIST_ATTRIBUTES ==
    { <<"a","p","p","e","n","d">>,
      <<"r","e","v","e","r","s","e">>,
      <<"i","n","s","e","r","t">>,
      <<"s","o","r","t">>,
      <<"e","x","t","e","n","d">>,
      <<"r","e","m","o","v","e">> }

\* the literals compared against in is_internal_attribute
MroName == <<"m","r","o">>
GiFrameName == <<"g","i","_","f","r","a","m","e">>

(***************************************************************************)
(* Targets.  A target is described by what isinstance answers for it:      *)
(* typ is the one builtin type among FunctionType, MethodType, type,       *)
(* CodeType, TracebackType, FrameType, GeneratorType it is an instance of  *)
(* ("other" when none), and list/dict/set tell whether it is an instance   *)
(* of LIST_TYPES, DICT_TYPES, SET_TYPES.  A class may inherit from several *)
(* of the container bases (UserList and DictMixin, say), so the three are  *)
(* independent; instances of the builtin types are never containers.       *)
(***************************************************************************)
BuiltinTypes == {"function", "method", "type", "code", "traceback", "frame",
                 "generator"}

Targets ==
    { [typ |-> t, list |-> FALSE, dict |-> FALSE, set |-> FALSE] : t \in BuiltinTypes }
    \cup
    { [typ |-> "other", list |-> l, dict |-> d, set |-> s] :
          l \in BOOLEAN, d \in BOOLEAN, s \in BOOLEAN }

\* attribute names the classifiers are asked about
OtherNames ==
    { <<"k","e","y","s">>, <<"i","n","d","e","x">>, <<"u","p","p","e","r">>,
      <<"c","o","_","c","o","d","e">>, <<"n","a","m","e">>,
      <<"_">>, <<"_","s","e","c","r","e","t">>, <<"_","m","r","o">>,
      <<"_","_","c","l","a","s","s","_","_">>, <<"_","_">>, <<>> }

AttrNames ==
    UNSAFE_FUNCTION_ATTRIBUTES \cup UNSAFE_METHOD_ATTRIBUTES
    \cup MODIFYING_SET_ATTRIBUTES \cup MODIFYING_DICT_ATTRIBUTES
    \cup MODIFYING_LIST_ATTRIBUTES \cup {MroName, GiFrameName} \cup OtherNames

AttrValues == {"v1", "v2"}

(***************************************************************************)
(* is_internal_attribute(obj, attr)                                        *)
(***************************************************************************)
is_internal_attribute_nomethod(obj, attr) ==
    IF obj.typ = "function" THEN attr \in UNSAFE_FUNCTION_ATTRIBUTES
    ELSE IF obj.typ = "method" THEN attr \in UNSAFE_FUNCTION_ATTRIBUTES
    ELSE IF obj.typ = "type" THEN attr = MroName
    ELSE IF obj.typ \in {"code", "traceback", "frame"} THEN TRUE
    ELSE IF obj.typ = "generator" THEN attr = GiFrameName
    ELSE startswith(attr, <<"_", "_">>)

is_internal_attribute(obj, attr) ==
    IF obj.typ = "function" THEN attr \in UNSAFE_FUNCTION_ATTRIBUTES
    ELSE IF obj.typ = "method" THEN
        attr \in UNSAFE_FUNCTION_ATTRIBUTES \/ attr \in UNSAFE_METHOD_ATTRIBUTES
    ELSE IF obj.typ = "type" THEN attr = MroName
    ELSE IF obj.typ \in {"code", "traceback", "frame"} THEN TRUE
    ELSE IF obj.typ = "generator" THEN attr = GiFrameName
    ELSE startswith(attr, <<"_", "_">>)

(***************************************************************************)
(* modifies_builtin_mutable(obj, attr)                                     *)
(***************************************************************************)
modifies_builtin_mutable_dictfirst(obj, attr) ==
    IF obj.dict THEN attr \in MODIFYING_DICT_ATTRIBUTES
    ELSE IF obj.list THEN attr \in MODIFYING_LIST_ATTRIBUTES
    ELSE IF obj.set THEN attr \in MODIFYING_SET_ATTRIBUTES
    ELSE FALSE

modifies_builtin_mutable(obj, attr) ==
    IF obj.list THEN attr \in MODIFYING_LIST_ATTRIBUTES
    ELSE IF obj.dict THEN attr \in MODIFYING_DICT_ATTRIBUTES
    ELSE IF obj.set THEN attr \in MODIFYING_SET_ATTRIBUTES
    ELSE FALSE

(***************************************************************************)
(* SandboxedEnvironment.is_safe_attribute and the override in              *)
(* ImmutableSandboxedEnvironment                                           *)
(***************************************************************************)
is_safe_attribute(obj, attr, value) ==
    ~ (startswith(attr, <<"_">>) \/ is_internal_attribute(obj, attr))

immutable_is_safe_attribute_nobase(obj, attr, value) ==
    ~ modifies_builtin_mutable(obj, attr)

immutable_is_safe_attribute(obj, attr, value) ==
    IF ~ is_safe_attribute(obj, attr, value) THEN FALSE
    ELSE ~ modifies_builtin_mutable(obj, attr)

\* the is_safe_attribute method the environment of the given variant binds
policy_is_safe_attribute(pol, obj, attr, value) ==
    IF pol = "immutable" THEN immutable_is_safe_attribute(obj, attr, value)
    ELSE is_safe_attribute(obj, attr, value)

(***************************************************************************)
(* Keys, exceptions and lookup outcomes for subscribe                      *)
(***************************************************************************)
\* characters str() can encode; anything else makes str(u"...") raise
AsciiChars == {"a","b","c","d","e","f","g","h","i","j","k","l","m","n","o","p",
               "q","r","s","t","u","v","w","x","y","z","_","0","1"}

StrKey(cs) == [kind |-> "str", chars |-> cs, num |-> 0]
UnicodeKey(cs) == [kind |-> "unicode", chars |-> cs, num |-> 0]
IntKey(n) == [kind |-> "int", chars |-> <<>>, num |-> n]

Keys ==
    { StrKey(<<"n","a","m","e">>), StrKey(<<"_","s","e","c","r","e","t">>),
      StrKey(<<"_","_","c","l","a","s","s","_","_">>),
      StrKey(<<"f","u","n","c","_","c","o","d","e">>),
      StrKey(<<"c","l","e","a","r">>), StrKey(<<"a","p","p","e","n","d">>),
      UnicodeKey(<<"n","a","m","e">>), UnicodeKey(<<"_","s","e","c","r","e","t">>),
      UnicodeKey(<<"n","a","m","é">>), UnicodeKey(<<"_","é">>),
      IntKey(0), IntKey(1) }

\* isinstance(argument, basestring)
IsBasestring(argument) == argument.kind \in {"str", "unicode"}

Value(v) == [kind |-> "value", val |-> v]
Raise(e) == [kind |-> "raise", exc |-> e]

\* str(argument) for a text argument
Str(argument) ==
    IF argument.kind = "str" THEN Value(argument.chars)
    ELSE IF \A i \in 1..Len(argument.chars) : argument.chars[i] \in AsciiChars
         THEN Value(argument.chars)
         ELSE Raise("UnicodeEncodeError")

\* the builtin exception classes each exception is an instance of
Bases(e) ==
    CASE e = "KeyError" -> {"KeyError", "LookupError"}
      [] e = "IndexError" -> {"IndexError", "LookupError"}
      [] OTHER -> {e}

\* does `except classes:` catch e
Catches(classes, e) == Bases(e) \cap classes # {}

\* what getattr(obj, attr) and obj[argument] may do, as the host object decides
AttrOutcomes == { Value("attrval"), Raise("AttributeError"), Raise("ValueError") }
ItemOutcomes == { Value("itemval"), Value("attrval"), Raise("TypeError"),
                  Raise("KeyError"), Raise("IndexError"), Raise("ValueError") }

\* obj.__class__.__name__
ClassName(obj) ==
    CASE obj.typ = "method" -> "instancemethod"
      [] obj.typ # "other" /\ obj.typ # "method" -> obj.typ
      [] obj.typ = "other" /\ obj.list /\ ~obj.dict /\ ~obj.set -> "list"
      [] obj.typ = "other" /\ ~obj.list /\ obj.dict /\ ~obj.set -> "dict"
      [] obj.typ = "other" /\ ~obj.list /\ ~obj.dict /\ obj.set -> "set"
      [] OTHER -> "UserClass"

\* self.undefined(hint, obj=..., name=..., exc=...): the arguments handed to the
\* environment's factory; None / "default" stand for an argument not passed
Undefined(hint, obj, name, exc) ==
    [kind |-> "undefined", hint |-> hint, obj |-> obj, name |-> name, exc |-> exc]

UnsafeHint(argument, obj) ==
    [kind |-> "unsafe_attribute", attr |-> argument, cls |-> ClassName(obj)]

(***************************************************************************)
(* SandboxedEnvironment.subscribe.  attr_phase is the attribute attempt;   *)
(* it either returns from subscribe (done) or falls through with is_unsafe.*)
(* trace lists the operations performed on the host object and the policy. *)
(***************************************************************************)
Fall(unsafe, tr) == [done |-> FALSE, res |-> None, is_unsafe |-> unsafe, trace |-> tr]
Done(r, tr) == [done |-> TRUE, res |-> r, is_unsafe |-> FALSE, trace |-> tr]

attr_phase_noreturn(pol, obj, argument, attrOut) ==
    IF ~ IsBasestring(argument) THEN Fall(FALSE, <<>>)
    ELSE IF Str(argument).kind = "raise" THEN Fall(FALSE, <<"str">>)
    ELSE IF attrOut.kind = "raise" THEN
        IF Catches({"AttributeError"}, attrOut.exc)
        THEN Fall(FALSE, <<"str", "getattr">>)
        ELSE Done(attrOut, <<"str", "getattr">>)
    ELSE IF policy_is_safe_attribute(pol, obj, argument.chars, attrOut.val)
        THEN Fall(FALSE, <<"str", "getattr", "is_safe_attribute">>)
        ELSE Fall(TRUE, <<"str", "getattr", "is_safe_attribute">>)

attr_phase_denyabsent(pol, obj, argument, attrOut) ==
    IF ~ IsBasestring(argument) THEN Fall(FALSE, <<>>)
    ELSE IF Str(argument).kind = "raise" THEN Fall(FALSE, <<"str">>)
    ELSE IF attrOut.kind = "raise" THEN
        IF Catches({"AttributeError"}, attrOut.exc)
        THEN Fall(~ policy_is_safe_attribute(pol, obj, argument.chars, "v1"),
                  <<"str", "getattr">>)
        ELSE Done(attrOut, <<"str", "getattr">>)
    ELSE IF policy_is_safe_attribute(pol, obj, argument.chars, attrOut.val)
        THEN Done(attrOut, <<"str", "getattr", "is_safe_attribute">>)
        ELSE Fall(TRUE, <<"str", "getattr", "is_safe_attribute">>)

attr_phase(pol, obj, argument, attrOut) ==
    IF ~ IsBasestring(argument) THEN Fall(FALSE, <<>>)
    ELSE IF Str(argument).kind = "raise" THEN Fall(FALSE, <<"str">>)
    ELSE IF attrOut.kind = "raise" THEN
        IF Catches({"AttributeError"}, attrOut.exc)
        THEN Fall(FALSE, <<"str", "getattr">>)
        ELSE Done(attrOut, <<"str", "getattr">>)
    ELSE IF policy_is_safe_attribute(pol, obj, argument.chars, attrOut.val)
        THEN Done(attrOut, <<"str", "getattr", "is_safe_attribute">>)
        ELSE Fall(TRUE, <<"str", "getattr", "is_safe_attribute">>)

item_phase_plainonly(is_unsafe, obj, argument, itemOut) ==
    IF itemOut.kind = "value" THEN [res |-> itemOut, trace |-> <<"getitem">>]
    ELSE IF Catches({"TypeError", "LookupError"}, itemOut.exc) THEN
        [res |-> Undefined(None, obj, argument, "default"),
         trace |-> <<"getitem", "undefined">>]
    ELSE [res |-> itemOut, trace |-> <<"getitem">>]

item_phase_typeerroronly(is_unsafe, obj, argument, itemOut) ==
    IF itemOut.kind = "value" THEN [res |-> itemOut, trace |-> <<"getitem">>]
    ELSE IF Catches({"TypeError"}, itemOut.exc) THEN
        IF is_unsafe
        THEN [res |-> Undefined(UnsafeHint(argument, obj), None, argument,
                                "SecurityError"),
              trace |-> <<"getitem", "undefined">>]
        ELSE [res |-> Undefined(None, obj, argument, "default"),
              trace |-> <<"getitem", "undefined">>]
    ELSE [res |-> itemOut, trace |-> <<"getitem">>]

item_phase(is_unsafe, obj, argument, itemOut) ==
    IF itemOut.kind = "value" THEN [res |-> itemOut, trace |-> <<"getitem">>]
    ELSE IF Catches({"TypeError", "LookupError"}, itemOut.exc) THEN
        IF is_unsafe
        THEN [res |-> Undefined(UnsafeHint(argument, obj), None, argument,
                                "SecurityError"),
              trace |-> <<"getitem", "undefined">>]
        ELSE [res |-> Undefined(None, obj, argument, "default"),
              trace |-> <<"getitem", "undefined">>]
    ELSE [res |-> itemOut, trace |-> <<"getitem">>]

subscribe(pol, obj, argument, attrOut, itemOut) ==
    LET a == attr_phase(pol, obj, argument, attrOut) IN
    IF a.done THEN [res |-> a.res, trace |-> a.trace]
    ELSE LET i == item_phase(a.is_unsafe, obj, argument, itemOut) IN
         [res |-> i.res, trace |-> a.trace \o i.trace]

(***************************************************************************)
(* unsafe, is_safe_callable and call.  The host's callables are named;     *)
(* marks holds, per callable, what getattr finds for unsafe_callable and   *)
(* alters_data ("absent" when the attribute does not exist).               *)
(***************************************************************************)
MaxCalls == 2

CallObjs == {"fn", "delete", "legacy", "len"}

\* does the object accept new attributes (a builtin function does not)
Settable(f) == f # "len"

FlagVals == {"absent", "False", "True"}

\* flags the host application has set before template code runs
InitFlags(f) ==
    CASE f = "fn" -> {[unsafe_callable |-> "absent", alters_data |-> "absent"]}
      [] f = "delete" -> {[unsafe_callable |-> "absent", alters_data |-> a] :
                              a \in {"False", "True"}}
      [] f = "legacy" -> {[unsafe_callable |-> u, alters_data |-> "absent"] :
                              u \in {"False", "True"}}
      [] OTHER -> {[unsafe_callable |-> "absent", alters_data |-> "absent"]}

ArgSets == { [args |-> <<>>, kwargs |-> {}],
             [args |-> <<1, 2>>, kwargs |-> {<<"k", 3>>}] }

\* what context.call(obj, *args, **kwargs) may do
CtxOutcomes == { Value("result"), Raise("TypeError") }

\* getattr(obj, name, False), as a truth value
GetFlag(m, obj, name) ==
    IF m[obj][name] = "absent" THEN FALSE ELSE m[obj][name] = "True"

is_safe_callable_unsafeonly(m, obj) ==
    ~ GetFlag(m, obj, "unsafe_callable")

is_safe_callable(m, obj) ==
    ~ (GetFlag(m, obj, "unsafe_callable") \/ GetFlag(m, obj, "alters_data"))

\* unsafe(f): the flags afterwards and what the call returns
unsafe(m, f) ==
    IF Settable(f)
    THEN [marks |-> [m EXCEPT ![f].unsafe_callable = "True"], res |-> Value(f)]
    ELSE [marks |-> m, res |-> Raise("AttributeError")]

SecurityError(obj) == [kind |-> "raise", exc |-> "SecurityError", about |-> obj]

Invocation(obj, a) == [obj |-> obj, args |-> a.args, kwargs |-> a.kwargs]

\* call(context, obj, *args, **kwargs): invoked lists the context.call
\* invocations made, ctxOut is what context.call does when invoked
call_invokefirst(m, obj, a, ctxOut) ==
    IF ~ is_safe_callable(m, obj)
    THEN [res |-> SecurityError(obj), invoked |-> <<Invocation(obj, a)>>]
    ELSE [res |-> ctxOut, invoked |-> <<Invocation(obj, a)>>]

call(m, obj, a, ctxOut) ==
    IF ~ is_safe_callable(m, obj)
    THEN [res |-> SecurityError(obj), invoked |-> <<>>]
    ELSE [res |-> ctxOut, invoked |-> <<Invocation(obj, a)>>]

(***************************************************************************)
(* safe_range.  xrange is the builtin: it keeps start, step and the        *)
(* length it computes from the arguments, and its iterator yields          *)
(* start + index * step while index < len.                                 *)
(***************************************************************************)
MAX_RANGE == 100000

MaxPasses == 2

RangeInputs ==
    { <<>>, <<1, 2, 3, 4>>, <<0, 5, 0>>,
      <<0>>, <<3>>, <<-2>>, <<2, 5>>, <<5, 2>>, <<-3, 3>>,
      <<0, 10, 3>>, <<10, 0, -3>>, <<0, 10, -1>>, <<7, 7, 1>>,
      <<100000>>, <<100001>>, <<1, 100002>>,
      <<100000, 0, -1>>, <<100001, 0, -1>>,
      <<0, 199999, 2>>, <<0, 200001, 2>>, <<0, -300001, -3>> }

get_len_of_range(lo, hi, step) ==
    IF lo < hi THEN 1 + ((hi - 1 - lo) \div step) ELSE 0

xrange(args) ==
    IF Len(args) = 0 \/ Len(args) > 3 THEN Raise("TypeError")
    ELSE LET start == IF Len(args) = 1 THEN 0 ELSE args[1]
             stop == IF Len(args) = 1 THEN args[1] ELSE args[2]
             step == IF Len(args) = 3 THEN args[3] ELSE 1
         IN IF step = 0 THEN Raise("ValueError")
            ELSE [kind |-> "xrange", start |-> start, step |-> step,
                  len |-> IF step > 0 THEN get_len_of_range(start, stop, step)
                          ELSE get_len_of_range(stop, start, -step)]

RangeTooBig == [kind |-> "raise", exc |-> "OverflowError", max |-> MAX_RANGE]

safe_range_ge(args) ==
    LET r == xrange(args) IN
    IF r.kind = "raise" THEN r
    ELSE IF r.len >= MAX_RANGE THEN RangeTooBig
    ELSE r

safe_range(args) ==
    LET r == xrange(args) IN
    IF r.kind = "raise" THEN r
    ELSE IF r.len > MAX_RANGE THEN RangeTooBig
    ELSE r

(***************************************************************************)
(* State machines.  The four parts of the module share no state, so each   *)
(* has its own specification; the variables of the other parts stay at     *)
(* their idle values.                                                      *)
(***************************************************************************)
classifierVars == <<qobj, qattr, qval, qres>>
subscribeVars == <<policy, sub>>
callVars == <<marks, calls, lastcall>>
rangeVars == <<rargs, rng, itpos, yielded, passes>>

ClassifierIdle == qobj = None /\ qattr = <<>> /\ qval = "v1" /\ qres = None
SubscribeIdle == policy = "base" /\ sub = None
CallIdle == marks = <<>> /\ calls = <<>> /\ lastcall = None
RangeIdle == rargs = <<>> /\ rng = None /\ itpos = -1 /\ yielded = None /\ passes = 0

\* ---- subscribe: the environment is constructed as one of the two variants and
\* the evaluator asks for obj.key / obj[key] on some host object, whose
\* getattr and item lookup behave as attrOut and itemOut say
Init ==
    /\ policy \in {"base", "immutable"}
    /\ sub \in { [kind |-> "pending", obj |-> obj, key |-> argument,
                  attrOut |-> attrOut, itemOut |-> itemOut,
                  res |-> None, trace |-> <<>>] :
                 obj \in Targets, argument \in Keys, attrOut \in AttrOutcomes,
                 itemOut \in ItemOutcomes }
    /\ ClassifierIdle /\ CallIdle /\ RangeIdle

Subscribe ==
    /\ sub.kind = "pending"
    /\ LET r == subscribe(policy, sub.obj, sub.key, sub.attrOut, sub.itemOut) IN
       sub' = [sub EXCEPT !.kind = "subscribe", !.res = r.res, !.trace = r.trace]
    /\ UNCHANGED <<policy, classifierVars, callVars, rangeVars>>

Next == Subscribe

Spec == Init /\ [][Next]_vars

\* ---- the classifiers and the two policies applied to drawn inputs
InitPolicy ==
    /\ qobj \in Targets
    /\ qattr \in AttrNames
    /\ qval \in AttrValues
    /\ qres = None
    /\ SubscribeIdle /\ CallIdle /\ RangeIdle

Applied(fn, v) ==
    /\ qres' = [kind |-> "result", fn |-> fn, val |-> v]
    /\ UNCHANGED <<qobj, qattr, qval, subscribeVars, callVars, rangeVars>>

IsInternalAttribute == Applied("is_internal_attribute", is_internal_attribute(qobj, qattr))

ModifiesBuiltinMutable ==
    Applied("modifies_builtin_mutable", modifies_builtin_mutable(qobj, qattr))

IsSafeAttribute == Applied("is_safe_attribute", is_safe_attribute(qobj, qattr, qval))

ImmutableIsSafeAttribute ==
    Applied("immutable_is_safe_attribute", immutable_is_safe_attribute(qobj, qattr, qval))

NextPolicy ==
    \/ IsInternalAttribute
    \/ ModifiesBuiltinMutable
    \/ IsSafeAttribute
    \/ ImmutableIsSafeAttribute

SpecPolicy == InitPolicy /\ [][NextPolicy]_vars

\* ---- unsafe / is_safe_callable / call
InitCall ==
    /\ marks \in { m \in [CallObjs -> [unsafe_callable : FlagVals, alters_data : FlagVals]] :
                     \A f \in CallObjs : m[f] \in InitFlags(f) }
    /\ calls = <<>>
    /\ lastcall = None
    /\ ClassifierIdle /\ SubscribeIdle /\ RangeIdle

MarkUnsafe(f) ==
    LET r == unsafe(marks, f) IN
    /\ marks' = r.marks
    /\ lastcall' = [op |-> "unsafe", obj |-> f, args |-> None, ctxOut |-> None,
                    res |-> r.res]
    /\ UNCHANGED <<calls, classifierVars, subscribeVars, rangeVars>>

CheckSafeCallable(f) ==
    /\ lastcall' = [op |-> "is_safe_callable", obj |-> f, args |-> None,
                    ctxOut |-> None, res |-> Value(is_safe_callable(marks, f))]
    /\ UNCHANGED <<marks, calls, classifierVars, subscribeVars, rangeVars>>

Call(f, a) ==
    /\ Len(calls) < MaxCalls
    /\ \E ctxOut \in CtxOutcomes :
        LET r == call(marks, f, a, ctxOut) IN
        /\ calls' = calls \o r.invoked
        /\ lastcall' = [op |-> "call", obj |-> f, args |-> a,
                        ctxOut |-> IF r.invoked = <<>> THEN None ELSE ctxOut,
                        res |-> r.res]
    /\ UNCHANGED <<marks, classifierVars, subscribeVars, rangeVars>>

NextCall ==
    \/ \E f \in CallObjs : MarkUnsafe(f)
    \/ \E f \in CallObjs : CheckSafeCallable(f)
    \/ \E f \in CallObjs, a \in ArgSets : Call(f, a)

SpecCall == InitCall /\ [][NextCall]_vars

\* ---- safe_range and iteration over its result
InitRange ==
    /\ rargs \in RangeInputs
    /\ rng = None
    /\ itpos = -1
    /\ yielded = None
    /\ passes = 0
    /\ ClassifierIdle /\ SubscribeIdle /\ CallIdle

SafeRange ==
    /\ rng = None
    /\ rng' = safe_range(rargs)
    /\ UNCHANGED <<rargs, itpos, yielded, passes, classifierVars, subscribeVars, callVars>>

\* iter(rng): a fresh iterator at index 0
Iter ==
    /\ rng.kind = "xrange"
    /\ itpos = -1
    /\ passes < MaxPasses
    /\ itpos' = 0
    /\ yielded' = None
    /\ UNCHANGED <<rargs, rng, passes, classifierVars, subscribeVars, callVars>>

\* iterator.next() while index < len
NextElem ==
    /\ rng.kind = "xrange"
    /\ itpos >= 0 /\ itpos < rng.len
    /\ yielded' = Value(rng.start + itpos * rng.step)
    /\ itpos' = itpos + 1
    /\ UNCHANGED <<rargs, rng, passes, classifierVars, subscribeVars, callVars>>

\* iterator.next() at index = len
StopIteration ==
    /\ rng.kind = "xrange"
    /\ itpos >= 0 /\ itpos >= rng.len
    /\ yielded' = [kind |-> "stop", count |-> itpos]
    /\ itpos' = -1
    /\ passes' = passes + 1
    /\ UNCHANGED <<rargs, rng, classifierVars, subscribeVars, callVars>>

NextRange == SafeRange \/ Iter \/ NextElem \/ StopIteration

SpecRange == InitRange /\ [][NextRange]_vars

(***************************************************************************)
(* Properties of subscribe (specification Spec)                            *)
(***************************************************************************)
Returned == sub.kind = "subscribe"

InTrace(e) == \E i \in 1..Len(sub.trace) : sub.trace[i] = e

TimesInTrace(e) == Cardinality({ i \in 1..Len(sub.trace) : sub.trace[i] = e })

\* the key is text and converts to a native attribute name
Convertible == IsBasestring(sub.key) /\ Str(sub.key).kind = "value"

\* the item lookup fails the way subscribe handles: type error or key/index error
ItemFailsHandled ==
    /\ sub.itemOut.kind = "raise"
    /\ sub.itemOut.exc \in {"TypeError", "KeyError", "IndexError"}

PlainUndefined == Undefined(None, sub.obj, sub.key, "default")

SecurityUndefined ==
    Undefined([kind |-> "unsafe_attribute", attr |-> sub.key, cls |-> ClassName(sub.obj)],
              None, sub.key, "SecurityError")

\* C1 as stated: subscribe is total; whatever way the attribute lookup, the
\* policy check or the item lookup fails, no exception propagates and the call
\* ends in a real value or a MissingValue.
C1_SubscribeNeverRaises ==
    Returned => sub.res.kind \in {"value", "undefined"}

\* C1 as amended: subscribe ends in a real value or a MissingValue whenever the
\* attribute lookup, if made, succeeds or fails as attribute-missing and the item
\* lookup, if made, succeeds or fails with a type error or key/index error; a
\* failure of any other kind in either lookup propagates out of subscribe unchanged.
C1_SubscribeTotalOnHandledFailures ==
    Returned =>
        LET attrOther == /\ Convertible
                         /\ sub.attrOut.kind = "raise"
                         /\ sub.attrOut.exc # "AttributeError"
            itemOther == /\ InTrace("getitem")
                         /\ sub.itemOut.kind = "raise"
                         /\ ~ ItemFailsHandled
        IN  IF attrOther THEN sub.res = sub.attrOut
            ELSE IF itemOther THEN sub.res = sub.itemOut
            ELSE sub.res.kind \in {"value", "undefined"}

C1_Witness ==
    /\ Returned
    /\ Convertible
    /\ sub.attrOut = Raise("AttributeError")
    /\ sub.itemOut = Raise("KeyError")
    /\ sub.res.kind = "undefined"

\* C3: for a text key starting with "_" whose attribute lookup succeeds, subscribe
\* returns the item value when the item lookup succeeds, and when the item lookup
\* fails with a type error or key/index error it returns the MissingValue tagged
\* with the SecurityError cause and named after the key, never the attribute value.
C3_DeniedAttributeFallsBackToItem ==
    (/\ Returned
     /\ Convertible
     /\ startswith(sub.key.chars, <<"_">>)
     /\ sub.attrOut.kind = "value")
    => /\ sub.itemOut.kind = "value" => sub.res = sub.itemOut
       /\ ItemFailsHandled =>
            /\ sub.res.kind = "undefined"
            /\ sub.res = SecurityUndefined
            /\ sub.res.name = sub.key
            /\ sub.res.exc = "SecurityError"

C3_Witness ==
    /\ Returned
    /\ sub.key = StrKey(<<"_","s","e","c","r","e","t">>)
    /\ sub.attrOut = Value("attrval")
    /\ sub.itemOut = Raise("KeyError")
    /\ sub.res.kind = "undefined"
    /\ sub.res.exc = "SecurityError"

\* C4: attribute lookup comes before item lookup: when the key is text, the
\* attribute lookup succeeds and is_safe_attribute allows it, subscribe returns
\* exactly the attribute value and never attempts the item lookup, even when the
\* item lookup would succeed with a different value.
C4_AttributeShortCircuitsItem ==
    (/\ Returned
     /\ Convertible
     /\ sub.attrOut.kind = "value"
     /\ policy_is_safe_attribute(policy, sub.obj, sub.key.chars, sub.attrOut.val))
    => /\ sub.res = sub.attrOut
       /\ ~ InTrace("getitem")

C4_Witness ==
    /\ Returned
    /\ sub.key = StrKey(<<"n","a","m","e">>)
    /\ sub.attrOut = Value("attrval")
    /\ sub.itemOut = Value("itemval")
    /\ sub.res = Value("attrval")

\* C10: subscribe consults is_safe_attribute at most once, and only for a text
\* key that converts and whose attribute lookup succeeded; for a non-text key or
\* an unconvertible text key the attribute lookup is not made either; and in
\* these cases and for an absent attribute an item lookup failing with a type
\* error or key/index error yields the plain MissingValue carrying the object
\* and the key, never the security-tagged one.
C10_PolicyConsultedOnlyAfterAttributeFound ==
    Returned =>
        /\ TimesInTrace("is_safe_attribute") <= 1
        /\ InTrace("is_safe_attribute") =>
              Convertible /\ sub.attrOut.kind = "value" /\ InTrace("getattr")
        /\ ~ Convertible => ~ InTrace("getattr")
        /\ ~ IsBasestring(sub.key) => sub.trace \in {<<"getitem">>, <<"getitem", "undefined">>}
        /\ (/\ \/ ~ Convertible
               \/ sub.attrOut = Raise("AttributeError")
            /\ ItemFailsHandled)
           => sub.res = PlainUndefined

C10_Witness ==
    /\ Returned
    /\ sub.key = StrKey(<<"_","s","e","c","r","e","t">>)
    /\ sub.attrOut = Raise("AttributeError")
    /\ sub.itemOut = Raise("IndexError")
    /\ sub.res = PlainUndefined
    /\ ~ InTrace("is_safe_attribute")

(***************************************************************************)
(* Properties of the classifiers and policies (specification SpecPolicy)   *)
(***************************************************************************)
AppliedFn(fn) == qres.kind = "result" /\ qres.fn = fn

PopName == <<"p","o","p">>
AppendName == <<"a","p","p","e","n","d">>
ClearName == <<"c","l","e","a","r">>

\* the category rules of the internal-attribute classifier, one per category
InternalByCategory(obj, attr) ==
    \/ obj.typ = "function" /\ attr \in UNSAFE_FUNCTION_ATTRIBUTES
    \/ obj.typ = "method" /\ attr \in (UNSAFE_FUNCTION_ATTRIBUTES \cup UNSAFE_METHOD_ATTRIBUTES)
    \/ obj.typ = "type" /\ attr = MroName
    \/ obj.typ \in {"code", "traceback", "frame"}
    \/ obj.typ = "generator" /\ attr = GiFrameName
    \/ obj.typ = "other" /\ Len(attr) >= 2 /\ attr[1] = "_" /\ attr[2] = "_"

\* C5: the immutable policy narrows the base policy: it denies iff the base
\* policy denies or modifies_builtin_mutable holds, so it never re-allows a base
\* denial; a mapping's "clear" is allowed by base and denied by immutable.
C5_ImmutableNarrowsBase ==
    /\ AppliedFn("immutable_is_safe_attribute") =>
          /\ qres.val = FALSE <=>
                (\/ ~ is_safe_attribute(qobj, qattr, qval)
                 \/ modifies_builtin_mutable(qobj, qattr))
          /\ ~ is_safe_attribute(qobj, qattr, qval) => qres.val = FALSE
          /\ (qobj.dict /\ ~ qobj.list /\ qattr = ClearName) => qres.val = FALSE
    /\ AppliedFn("is_safe_attribute") =>
          ((qobj.dict /\ ~ qobj.list /\ qattr = ClearName) => qres.val = TRUE)

C5_Witness ==
    /\ AppliedFn("immutable_is_safe_attribute")
    /\ qobj.dict /\ ~ qobj.list /\ qattr = ClearName
    /\ is_safe_attribute(qobj, qattr, qval)
    /\ qres.val = FALSE

\* C7: the base policy denies iff the name starts with an underscore or the
\* classifier's rule for the target's category says internal; every name starting
\* with "_" is denied for any target and value, and the five function names are
\* denied on every function.
C7_BasePolicyDenial ==
    /\ AppliedFn("is_internal_attribute") =>
          (qres.val = TRUE <=> InternalByCategory(qobj, qattr))
    /\ AppliedFn("is_safe_attribute") =>
          /\ qres.val = FALSE <=>
                (\/ Len(qattr) >= 1 /\ qattr[1] = "_"
                 \/ InternalByCategory(qobj, qattr))
          /\ (Len(qattr) >= 1 /\ qattr[1] = "_") => qres.val = FALSE
          /\ (qobj.typ = "function" /\ qattr \in UNSAFE_FUNCTION_ATTRIBUTES)
                => qres.val = FALSE

C7_Witness ==
    /\ AppliedFn("is_safe_attribute")
    /\ qobj.typ = "method"
    /\ qattr = <<"i","m","_","s","e","l","f">>
    /\ qres.val = FALSE

\* C9: modifies_builtin_mutable judges a target by exactly one category, sequence
\* before mapping before set, and answers whether the name is in that category's
\* mutating set; a target that is both a sequence and a mapping gives false for
\* "pop" and true for "append"; a target in no category gives false.
C9_MutationByPriorityCategory ==
    AppliedFn("modifies_builtin_mutable") =>
        LET category == IF qobj.list THEN "sequence"
                        ELSE IF qobj.dict THEN "mapping"
                        ELSE IF qobj.set THEN "set"
                        ELSE "none"
        IN  /\ category = "sequence" => (qres.val <=> qattr \in MODIFYING_LIST_ATTRIBUTES)
            /\ category = "mapping" => (qres.val <=> qattr \in MODIFYING_DICT_ATTRIBUTES)
            /\ category = "set" => (qres.val <=> qattr \in MODIFYING_SET_ATTRIBUTES)
            /\ category = "none" => qres.val = FALSE
            /\ (qobj.list /\ qobj.dict /\ qattr = PopName) => qres.val = FALSE
            /\ (qobj.list /\ qobj.dict /\ qattr = AppendName) => qres.val = TRUE

C9_Witness ==
    /\ AppliedFn("modifies_builtin_mutable")
    /\ qobj.list /\ qobj.dict
    /\ qattr = PopName
    /\ qres.val = FALSE

(***************************************************************************)
(* Properties of unsafe, is_safe_callable and call (specification SpecCall)*)
(***************************************************************************)
\* C2: call is gated by is_safe_callable: a call on a target that is not safely
\* callable raises SecurityError and makes no context.call invocation; a call on
\* a safely callable target makes exactly one invocation, with the same
\* arguments, and returns what it returned or raised.
C2_CallGated ==
    [][ (lastcall'.op = "call") =>
          IF is_safe_callable(marks, lastcall'.obj)
          THEN /\ calls' = Append(calls, [obj |-> lastcall'.obj,
                                          args |-> lastcall'.args.args,
                                          kwargs |-> lastcall'.args.kwargs])
               /\ lastcall'.res = lastcall'.ctxOut
               /\ lastcall'.ctxOut \in CtxOutcomes
          ELSE /\ calls' = calls
               /\ lastcall'.res.kind = "raise"
               /\ lastcall'.res.exc = "SecurityError"
               /\ lastcall'.res.about = lastcall'.obj ]_vars

C2_Witness ==
    /\ lastcall # None
    /\ lastcall.op = "call"
    /\ lastcall.obj = "fn"
    /\ marks["fn"].unsafe_callable = "True"
    /\ lastcall.res.exc = "SecurityError"
    /\ Len(calls) = 1
    /\ calls[1].obj = "fn"

RangeStart == IF Len(rargs) = 1 THEN 0 ELSE rargs[1]
RangeStop == IF Len(rargs) = 1 THEN rargs[1] ELSE rargs[2]
RangeStep == IF Len(rargs) = 3 THEN rargs[3] ELSE 1

\* the arguments denote an arithmetic progression
WellFormedRange == Len(rargs) \in 1..3 /\ RangeStep # 0

\* the progression has an element of index i, so its length exceeds i
HasIndex(i) ==
    /\ i >= 0
    /\ IF RangeStep > 0 THEN RangeStart + i * RangeStep < RangeStop
       ELSE RangeStart + i * RangeStep > RangeStop

\* C8: safe_range fails with the resource-limit error iff the progression is
\* longer than 100000; a progression of exactly 100000 is accepted and iterating
\* it yields exactly its integers in order, on every pass; the same holds for
\* negative steps and empty ranges.
C8_RangeCeiling ==
    /\ (rng # None /\ WellFormedRange) =>
          /\ rng = RangeTooBig <=> HasIndex(100000)
          /\ ~ HasIndex(100000) => rng.kind = "xrange"
    /\ (rng # None /\ ~ WellFormedRange) => (rng.kind = "raise" /\ rng # RangeTooBig)
    /\ yielded.kind = "value" =>
          /\ itpos >= 1
          /\ HasIndex(itpos - 1)
          /\ yielded.val = RangeStart + (itpos - 1) * RangeStep
    /\ yielded.kind = "stop" =>
          /\ ~ HasIndex(yielded.count)
          /\ yielded.count = 0 \/ HasIndex(yielded.count - 1)

C8_Witness ==
    /\ rargs = <<100000, 0, -1>>
    /\ passes = 1
    /\ itpos = 100000
    /\ yielded = Value(1)

====
